---- MODULE Spec2Model ----
(***************************************************************************)
(* Model of the qualia application shell and session: two OS windows (view *)
(* and control) sharing one GPU device, a GUI bound to the control window, *)
(* and the dispatch of the window event stream.                            *)
(*                                                                         *)
(* The state is the shell's Option<Qualia> (lib.rs:22-39, the same         *)
(* aggregate as session.rs:21-32), the event loop's exit flag, the         *)
(* capabilities the platform reports for each surface, and a record of     *)
(* what the last handler call received, returned and did to its            *)
(* collaborators (GUI, surfaces, windows). `pending` holds the windows with *)
(* a redraw owed by the windowing layer: requested through                 *)
(* Window::request_redraw, or the first paint of a new window.             *)
(***************************************************************************)
EXTENDS Integers, Sequences, FiniteSets, TLC

VARIABLES state, exiting, caps, sessions, last, pending

vars == <<state, exiting, caps, sessions, last, pending>>

(***************************************************************************)
(* Bounds of the model.                                                    *)
(***************************************************************************)
\* Window dimensions 0..MaxDim are tried beside the sizes of the scenario.
MaxDim == 1
\* Number of sessions the shell may build in one run (window-id supply).
MaxSessions == 2

(***************************************************************************)
(* Values.                                                                 *)
(***************************************************************************)
Roles == {"view", "control"}

\* PhysicalSize<u32> values, <<width, height>>: the small ones and the two
\* sizes of the 800 x 600 / 1024 x 768 scenario.
Sizes == ((0..MaxDim) \X (0..MaxDim)) \cup {<<800, 600>>, <<1024, 768>>}

\* window.inner_size() of a new window: the platform's default, or a zero
\* width or height (a window that is created minimized or not yet mapped).
InnerSizes == {<<0, 0>>, <<0, 1>>, <<1, 0>>, <<800, 600>>}

\* TextureFormat::is_srgb, over the formats the surfaces report.
is_srgb(f) == f \in {"Bgra8UnormSrgb", "Rgba8UnormSrgb"}

\* SurfaceCapabilities a surface may report (formats and alpha modes, in the
\* platform's order of preference): one with an sRGB format that is not the
\* first entry, one without any sRGB format.
SurfaceCaps ==
    { [formats |-> <<"Bgra8Unorm", "Bgra8UnormSrgb", "Rgba8UnormSrgb">>,
       alpha_modes |-> <<"Opaque">>],
      [formats |-> <<"Rgba8Unorm", "Bgra8Unorm">>,
       alpha_modes |-> <<"PreMultiplied", "Opaque">>] }

\* Window ids: session n (1-based) owns windows 2n-1 (view) and 2n (control);
\* OtherWindow stands for every id that is no window of the current session
\* (a window of an earlier session, or of a failed initialisation).
OtherWindow == 0

\* winit::WindowEvent, by the kinds the dispatch distinguishes.
NoSize == <<0, 0>>
Events ==
    [kind : {"CloseRequested", "RedrawRequested", "Other"}, size : {NoSize}]
        \cup [kind : {"Resized"}, size : Sizes]

\* What surface.get_current_texture() would answer for a surface right now.
SurfaceStatus == {"Good", "Outdated"}

\* Outcomes of the fallible construction steps.
InitFailures == {"None", "ViewWindow", "ViewSurface", "ControlWindow",
                 "ControlSurface", "RequestAdapter", "RequestDevice"}

None == [tag |-> "None"]

Max(a, b) == IF a >= b THEN a ELSE b

(***************************************************************************)
(* WindowContext (context/window.rs)                                       *)
(***************************************************************************)
\* Variant: the last sRGB entry in place of the first.
select_format_last_srgb(formats) ==
    LET srgb == { i \in 1..Len(formats) : is_srgb(formats[i]) }
    IN  IF srgb = {}
        THEN formats[1]
        ELSE formats[CHOOSE i \in srgb : \A j \in srgb : i >= j]

\* caps.formats.iter().copied().find(|f| f.is_srgb()).unwrap_or(caps.formats[0])
select_format(formats) ==
    LET srgb == { i \in 1..Len(formats) : is_srgb(formats[i]) }
    IN  IF srgb = {}
        THEN formats[1]
        ELSE formats[CHOOSE i \in srgb : \A j \in srgb : i <= j]

\* desired_maximum_frame_latency
FrameLatency == 2

\* Variant: from_raw without the max(1) clamp.
from_raw_nomax(window, size, c) ==
    LET config == [usage |-> "RENDER_ATTACHMENT",
                   format |-> select_format(c.formats),
                   width |-> size[1],
                   height |-> size[2],
                   present_mode |-> "Fifo",
                   alpha_mode |-> c.alpha_modes[1],
                   desired_maximum_frame_latency |-> FrameLatency]
    IN  [window |-> window, surface |-> [config |-> config], config |-> config]

\* WindowContext::from_raw: `size` is window.inner_size(), `c` the surface's
\* capabilities; the surface is configured with the new configuration.
from_raw(window, size, c) ==
    LET config == [usage |-> "RENDER_ATTACHMENT",
                   format |-> select_format(c.formats),
                   width |-> Max(size[1], 1),
                   height |-> Max(size[2], 1),
                   present_mode |-> "Fifo",
                   alpha_mode |-> c.alpha_modes[1],
                   desired_maximum_frame_latency |-> FrameLatency]
    IN  [window |-> window, surface |-> [config |-> config], config |-> config]

\* Variant: resize guarded by || in place of &&.
resize_or(wc, size) ==
    IF size[1] > 0 \/ size[2] > 0
    THEN LET config == [wc.config EXCEPT !.width = size[1], !.height = size[2]]
         IN  [wc |-> [wc EXCEPT !.config = config, !.surface.config = config],
              configured |-> TRUE]
    ELSE [wc |-> wc, configured |-> FALSE]

\* Variant: resize storing width and height crossed.
resize_swapped(wc, size) ==
    IF size[1] > 0 /\ size[2] > 0
    THEN LET config == [wc.config EXCEPT !.width = size[2], !.height = size[1]]
         IN  [wc |-> [wc EXCEPT !.config = config, !.surface.config = config],
              configured |-> TRUE]
    ELSE [wc |-> wc, configured |-> FALSE]

\* Variant: resize that stores the new size and leaves the surface as it was.
resize_stores_only(wc, size) ==
    IF size[1] > 0 /\ size[2] > 0
    THEN LET config == [wc.config EXCEPT !.width = size[1], !.height = size[2]]
         IN  [wc |-> [wc EXCEPT !.config = config], configured |-> FALSE]
    ELSE [wc |-> wc, configured |-> FALSE]

\* Variant: resize that configures the surface before it stores the new size.
resize_configure_first(wc, size) ==
    IF size[1] > 0 /\ size[2] > 0
    THEN LET config == [wc.config EXCEPT !.width = size[1], !.height = size[2]]
         IN  [wc |-> [wc EXCEPT !.config = config, !.surface.config = wc.config],
              configured |-> TRUE]
    ELSE [wc |-> wc, configured |-> FALSE]

\* WindowContext::resize: the context afterwards, and whether surface.configure
\* was called.
resize(wc, size) ==
    IF size[1] > 0 /\ size[2] > 0
    THEN LET config == [wc.config EXCEPT !.width = size[1], !.height = size[2]]
         IN  [wc |-> [wc EXCEPT !.config = config, !.surface.config = config],
              configured |-> TRUE]
    ELSE [wc |-> wc, configured |-> FALSE]

(***************************************************************************)
(* GuiContext (context/gui.rs) and GpuContext (context/gpu.rs)             *)
(***************************************************************************)
\* Variant: GuiContext::new with a renderer of a fixed format.
GuiContext_new_fixed_format(window, output_format) ==
    [window |-> window, output_format |-> "Bgra8UnormSrgb", msaa_samples |-> 1]

\* GuiContext::new: input state bound to `window`, renderer to `output_format`.
GuiContext_new(window, output_format) ==
    [window |-> window, output_format |-> output_format, msaa_samples |-> 1]

\* GpuContext::try_new: adapter picked against the probe surface, then the
\* device; `steps` are the requests that succeeded.
GpuContext_try_new(instance, compatible_surface, failure) ==
    IF failure = "RequestAdapter"
    THEN [ok |-> FALSE, err |-> "RequestAdapter", steps |-> <<>>]
    ELSE IF failure = "RequestDevice"
    THEN [ok |-> FALSE, err |-> "RequestDevice", steps |-> <<"adapter">>]
    ELSE [ok |-> TRUE,
          gpu |-> [instance |-> instance, compatible_surface |-> compatible_surface],
          steps |-> <<"adapter", "device">>]

(***************************************************************************)
(* Renderer (render.rs)                                                    *)
(***************************************************************************)
\* surface.get_current_texture(): fails on a lost or outdated surface.
get_current_texture(status) ==
    IF status = "Good" THEN [ok |-> TRUE] ELSE [ok |-> FALSE, err |-> "GetFrame"]

\* Renderer::render (the trait's default body) on a target whose surface is in
\* this status: the calls made, in order, and how the call ends. After the
\* encoder is created the body reaches todo!(), which panics; the statements
\* after it (submit, present, request_redraw, Ok(())) are never executed.
render(gpu, target, status) ==
    LET frame == get_current_texture(status)
    IN  IF ~frame.ok
        THEN [result |-> "Err(GetFrame)",
              calls |-> <<"get_current_texture">>,
              redraw |-> {}]
        ELSE [result |-> "panic",
              calls |-> <<"get_current_texture", "create_view",
                          "create_command_encoder", "todo!">>,
              redraw |-> {}]

(***************************************************************************)
(* Session::update (session.rs)                                            *)
(***************************************************************************)
\* What one call of update did: `calls` lists, in order, the calls it made on
\* the GUI, the window contexts and the render helpers.
NoEffects ==
    [forwarded |-> FALSE, configured |-> {}, rendered |-> {}, redraw |-> {},
     calls |-> <<>>]

\* Variant: render_view that does not ask for the next redraw.
render_view_once(s) == [rendered |-> {"view"}, redraw |-> {}]

\* render_view: the body is a placeholder, it only asks for the next redraw.
render_view(s) == [rendered |-> {"view"}, redraw |-> {s.view.window}]

\* render_control: likewise for the control window.
render_control(s) == [rendered |-> {"control"}, redraw |-> {s.control.window}]

\* Variant: only a close of the view window exits.
close_requested_view_only(s, window_id) ==
    IF window_id = s.view.window
    THEN [session |-> s, result |-> "Ok(Some(Exit))", fx |-> NoEffects]
    ELSE [session |-> s, result |-> "Ok(None)", fx |-> NoEffects]

\* WindowEvent::CloseRequested => Ok(Some(SessionAction::Exit))
close_requested(s, window_id) ==
    [session |-> s, result |-> "Ok(Some(Exit))", fx |-> NoEffects]

\* Variant: Resized routed to the other window's context.
resized_crossed(s, window_id, new_size) ==
    IF window_id = s.view.window
    THEN LET r == resize(s.control, new_size)
         IN  [session |-> [s EXCEPT !.control = r.wc],
              result |-> "Ok(None)",
              fx |-> [NoEffects EXCEPT
                        !.calls = <<"control.resize">>,
                        !.configured = IF r.configured THEN {"control"} ELSE {}]]
    ELSE IF window_id = s.control.window
    THEN LET r == resize(s.view, new_size)
         IN  [session |-> [s EXCEPT !.view = r.wc],
              result |-> "Ok(None)",
              fx |-> [NoEffects EXCEPT
                        !.calls = <<"view.resize">>,
                        !.configured = IF r.configured THEN {"view"} ELSE {}]]
    ELSE [session |-> s, result |-> "Ok(None)", fx |-> NoEffects]

\* WindowEvent::Resized(new_size): resize of the window context whose window
\* has this id, none for any other id.
resized(s, window_id, new_size) ==
    IF window_id = s.view.window
    THEN LET r == resize(s.view, new_size)
         IN  [session |-> [s EXCEPT !.view = r.wc],
              result |-> "Ok(None)",
              fx |-> [NoEffects EXCEPT
                        !.calls = <<"view.resize">>,
                        !.configured = IF r.configured THEN {"view"} ELSE {}]]
    ELSE IF window_id = s.control.window
    THEN LET r == resize(s.control, new_size)
         IN  [session |-> [s EXCEPT !.control = r.wc],
              result |-> "Ok(None)",
              fx |-> [NoEffects EXCEPT
                        !.calls = <<"control.resize">>,
                        !.configured = IF r.configured THEN {"control"} ELSE {}]]
    ELSE [session |-> s, result |-> "Ok(None)", fx |-> NoEffects]

\* Variant: RedrawRequested routed to the other window's renderer.
redraw_requested_crossed(s, window_id) ==
    IF window_id = s.view.window
    THEN LET r == render_control(s)
         IN  [session |-> s, result |-> "Ok(None)",
              fx |-> [NoEffects EXCEPT !.rendered = r.rendered, !.redraw = r.redraw,
                                       !.calls = <<"render_control">>]]
    ELSE IF window_id = s.control.window
    THEN LET r == render_view(s)
         IN  [session |-> s, result |-> "Ok(None)",
              fx |-> [NoEffects EXCEPT !.rendered = r.rendered, !.redraw = r.redraw,
                                       !.calls = <<"render_view">>]]
    ELSE [session |-> s, result |-> "Ok(None)", fx |-> NoEffects]

\* WindowEvent::RedrawRequested: render_view for the view window's id,
\* render_control for the control window's, nothing for any other id.
redraw_requested(s, window_id) ==
    IF window_id = s.view.window
    THEN LET r == render_view(s)
         IN  [session |-> s, result |-> "Ok(None)",
              fx |-> [NoEffects EXCEPT !.rendered = r.rendered, !.redraw = r.redraw,
                                       !.calls = <<"render_view">>]]
    ELSE IF window_id = s.control.window
    THEN LET r == render_control(s)
         IN  [session |-> s, result |-> "Ok(None)",
              fx |-> [NoEffects EXCEPT !.rendered = r.rendered, !.redraw = r.redraw,
                                       !.calls = <<"render_control">>]]
    ELSE [session |-> s, result |-> "Ok(None)", fx |-> NoEffects]

\* Variant: the `_` arm asks for the exit.
dispatch_other_exits(s, window_id, event) ==
    CASE event.kind = "CloseRequested" -> close_requested(s, window_id)
      [] event.kind = "Resized" -> resized(s, window_id, event.size)
      [] event.kind = "RedrawRequested" -> redraw_requested(s, window_id)
      [] OTHER -> [session |-> s, result |-> "Ok(Some(Exit))", fx |-> NoEffects]

\* The `match event` of update.
dispatch(s, window_id, event) ==
    CASE event.kind = "CloseRequested" -> close_requested(s, window_id)
      [] event.kind = "Resized" -> resized(s, window_id, event.size)
      [] event.kind = "RedrawRequested" -> redraw_requested(s, window_id)
      [] OTHER -> [session |-> s, result |-> "Ok(None)", fx |-> NoEffects]

\* Variant: update that dispatches whatever the GUI answers.
update_ignores_consumed(s, window_id, event, consumed) ==
    IF window_id = s.control.window
    THEN LET d == dispatch(s, window_id, event)
         IN  [d EXCEPT !.fx.forwarded = TRUE,
                       !.fx.calls = <<"gui.on_window_event">> \o d.fx.calls]
    ELSE dispatch(s, window_id, event)

\* Variant: update that handles the event first and offers it to the GUI last.
update_dispatch_first(s, window_id, event, consumed) ==
    IF window_id = s.control.window
    THEN LET d == dispatch(s, window_id, event)
         IN  IF consumed
             THEN [session |-> s, result |-> "Ok(None)",
                   fx |-> [d.fx EXCEPT !.forwarded = TRUE,
                                       !.calls = d.fx.calls \o <<"gui.on_window_event">>]]
             ELSE [d EXCEPT !.fx.forwarded = TRUE,
                            !.fx.calls = d.fx.calls \o <<"gui.on_window_event">>]
    ELSE dispatch(s, window_id, event)

\* Session::update: `consumed` is what gui.state.on_window_event answers when
\* it is asked (only for the control window).
update(s, window_id, event, consumed) ==
    IF window_id = s.control.window
    THEN IF consumed
         THEN [session |-> s, result |-> "Ok(None)",
               fx |-> [NoEffects EXCEPT !.forwarded = TRUE,
                                        !.calls = <<"gui.on_window_event">>]]
         ELSE LET d == dispatch(s, window_id, event)
              IN  [d EXCEPT !.fx.forwarded = TRUE,
                            !.fx.calls = <<"gui.on_window_event">> \o d.fx.calls]
    ELSE dispatch(s, window_id, event)

(***************************************************************************)
(* The shell: App (lib.rs)                                                 *)
(***************************************************************************)
\* No SessionError.
NoError == [variant |-> "None", source |-> "None"]

NoCall ==
    [op |-> "init", window_id |-> 0, event |-> [kind |-> "Other", size |-> NoSize],
     consumed |-> FALSE, status |-> "Good", result |-> "none",
     forwarded |-> FALSE, configured |-> {}, rendered |-> {}, redraw |-> {},
     failure |-> "None", sizes |-> <<NoSize, NoSize>>, error |-> "none",
     steps |-> <<>>, err |-> NoError, calls |-> <<>>, released |-> <<>>]

\* App::default(): no session; the platform's surface capabilities are fixed.
Init ==
    /\ state = None
    /\ exiting = FALSE
    /\ caps \in [Roles -> SurfaceCaps]
    /\ sessions = 0
    /\ pending = {}
    /\ last = NoCall

\* create_window_and_surface for one window, by the failure injected.
create_window_and_surface(role, failure) ==
    IF role = "view" /\ failure = "ViewWindow" THEN "CreateWindow"
    ELSE IF role = "view" /\ failure = "ViewSurface" THEN "CreateSurface"
    ELSE IF role = "control" /\ failure = "ControlWindow" THEN "CreateWindow"
    ELSE IF role = "control" /\ failure = "ControlSurface" THEN "CreateSurface"
    ELSE "Ok"

\* Variant of created in which the surface is built whatever the window step
\* returned.
created_all(role, outcome) ==
    <<role \o "_window", role \o "_surface">>

\* What create_window_and_surface had built when it returned.
created(role, outcome) ==
    IF outcome = "CreateWindow" THEN <<>>
    ELSE IF outcome = "CreateSurface" THEN <<role \o "_window">>
    ELSE <<role \o "_window", role \o "_surface">>

\* Variant of try_new with the two map_err targets exchanged.
try_new_crossed(n, failure, vsize, csize, c) ==
    LET view_window == 2 * n - 1
        control_window == 2 * n
        v == create_window_and_surface("view", failure)
        w == create_window_and_surface("control", failure)
        g == GpuContext_try_new(n, view_window, failure)
    IN  IF v # "Ok"
        THEN [ok |-> FALSE,
              err |-> [variant |-> "InitControlWindow", source |-> v],
              steps |-> <<"instance">> \o created("view", v)]
        ELSE IF w # "Ok"
        THEN [ok |-> FALSE,
              err |-> [variant |-> "InitViewWindow", source |-> w],
              steps |-> <<"instance">> \o created("view", v) \o created("control", w)]
        ELSE IF ~g.ok
        THEN [ok |-> FALSE,
              err |-> [variant |-> "InitGpu", source |-> g.err],
              steps |-> <<"instance">> \o created("view", v) \o created("control", w)
                            \o g.steps]
        ELSE LET view_context == from_raw(view_window, vsize, c["view"])
                 control_context == from_raw(control_window, csize, c["control"])
                 gui_format == control_context.config.format
                 gui == GuiContext_new(control_context.window, gui_format)
             IN  [ok |-> TRUE,
                  session |-> [tag |-> "Some", gpu |-> g.gpu,
                               view |-> view_context,
                               control |-> control_context,
                               gui |-> gui],
                  steps |-> <<"instance">> \o created("view", v) \o created("control", w)
                                \o g.steps
                                \o <<"gpu", "view_context", "control_context", "gui">>]

\* Session::try_new for session number n: Ok with the session, or Err with the
\* SessionError of the step that failed; `steps` are the construction steps
\* that completed, in order. The windows' inner sizes (vsize, csize) are read
\* by from_raw, after the GPU context exists.
try_new(n, failure, vsize, csize, c) ==
    LET view_window == 2 * n - 1
        control_window == 2 * n
        v == create_window_and_surface("view", failure)
        w == create_window_and_surface("control", failure)
        g == GpuContext_try_new(n, view_window, failure)
    IN  IF v # "Ok"
        THEN [ok |-> FALSE,
              err |-> [variant |-> "InitViewWindow", source |-> v],
              steps |-> <<"instance">> \o created("view", v)]
        ELSE IF w # "Ok"
        THEN [ok |-> FALSE,
              err |-> [variant |-> "InitControlWindow", source |-> w],
              steps |-> <<"instance">> \o created("view", v) \o created("control", w)]
        ELSE IF ~g.ok
        THEN [ok |-> FALSE,
              err |-> [variant |-> "InitGpu", source |-> g.err],
              steps |-> <<"instance">> \o created("view", v) \o created("control", w)
                            \o g.steps]
        ELSE LET view_context == from_raw(view_window, vsize, c["view"])
                 control_context == from_raw(control_window, csize, c["control"])
                 gui_format == control_context.config.format
                 gui == GuiContext_new(control_context.window, gui_format)
             IN  [ok |-> TRUE,
                  session |-> [tag |-> "Some", gpu |-> g.gpu,
                               view |-> view_context,
                               control |-> control_context,
                               gui |-> gui],
                  steps |-> <<"instance">> \o created("view", v) \o created("control", w)
                                \o g.steps
                                \o <<"gpu", "view_context", "control_context", "gui">>]

\* Dropping a session releases its fields in their declaration order
\* (struct Session / struct Qualia: gpu, view, control, gui).
drop_session(s) ==
    IF s = None THEN <<>> ELSE <<"gpu", "view", "control", "gui">>

\* The error! line of App::resumed for each failure.
log_message(err) ==
    CASE err.variant = "InitViewWindow" -> "Failed to init view window"
      [] err.variant = "InitControlWindow" -> "Failed to init control window"
      [] err.variant = "InitGpu" -> "Failed to init GPU"

\* App::resumed: the construction of Session::try_new, written out in the
\* shell; it stores the session, or on a failure logs and returns.
resumed ==
    /\ ~exiting
    /\ sessions < MaxSessions
    /\ \E failure \in InitFailures :
       \E vsize \in (IF failure = "None" THEN InnerSizes ELSE {NoSize}),
          csize \in (IF failure = "None" THEN InnerSizes ELSE {NoSize}) :
       \E r \in {try_new(sessions + 1, failure, vsize, csize, caps)} :
          LET call == [NoCall EXCEPT !.op = "resumed", !.failure = failure,
                                     !.steps = r.steps]
          IN  IF r.ok
              THEN /\ state' = r.session
                   /\ sessions' = sessions + 1
                   /\ last' = [call EXCEPT !.result = "Ok",
                                           !.sizes = <<vsize, csize>>,
                                           !.released = drop_session(state)]
                   /\ pending' = {r.session.view.window, r.session.control.window}
                   /\ UNCHANGED <<exiting, caps>>
              ELSE /\ last' = [call EXCEPT !.result = "Err", !.err = r.err,
                                           !.error = log_message(r.err)]
                   /\ UNCHANGED <<state, exiting, caps, sessions, pending>>

\* The window ids an event can carry.
Targets(s) ==
    IF s = None THEN {OtherWindow}
    ELSE {s.view.window, s.control.window, OtherWindow}

\* Variant: window_event whose match runs without a session too, so that a
\* CloseRequested ends the event loop.
window_event_without_guard ==
    /\ ~exiting
    /\ \E window_id \in Targets(state), event \in Events :
        LET call == [NoCall EXCEPT !.op = "window_event",
                                   !.window_id = window_id, !.event = event]
        IN  IF state = None
            THEN /\ last' = call
                 /\ exiting' = (event.kind = "CloseRequested")
                 /\ UNCHANGED <<state, caps, sessions, pending>>
            ELSE \E consumed \in
                        (IF window_id = state.control.window THEN BOOLEAN ELSE {FALSE}),
                    status \in
                        (IF event.kind = "RedrawRequested" THEN SurfaceStatus
                                                           ELSE {"Good"}) :
                    \E r \in {update(state, window_id, event, consumed)} :
                        /\ state' = r.session
                        /\ exiting' = (r.result = "Ok(Some(Exit))")
                        /\ last' = [call EXCEPT !.consumed = consumed,
                                                !.status = status,
                                                !.result = r.result,
                                                !.forwarded = r.fx.forwarded,
                                                !.configured = r.fx.configured,
                                                !.rendered = r.fx.rendered,
                                                !.redraw = r.fx.redraw,
                                                !.calls = r.fx.calls]
                        /\ pending' = (IF event.kind = "RedrawRequested"
                                        THEN pending \ {window_id}
                                        ELSE pending) \cup r.fx.redraw
                        /\ UNCHANGED <<caps, sessions>>

\* App::window_event: ignored without a session; otherwise the GUI's first
\* refusal and the dispatch of Session::update, an Exit ending the event loop.
window_event ==
    /\ ~exiting
    /\ \E window_id \in Targets(state), event \in Events :
        LET call == [NoCall EXCEPT !.op = "window_event",
                                   !.window_id = window_id, !.event = event]
        IN  IF state = None
            THEN /\ last' = call
                 /\ UNCHANGED <<state, exiting, caps, sessions, pending>>
            ELSE \E consumed \in
                        (IF window_id = state.control.window THEN BOOLEAN ELSE {FALSE}),
                    status \in
                        (IF event.kind = "RedrawRequested" THEN SurfaceStatus
                                                           ELSE {"Good"}) :
                    \E r \in {update(state, window_id, event, consumed)} :
                        /\ state' = r.session
                        /\ exiting' = (r.result = "Ok(Some(Exit))")
                        /\ last' = [call EXCEPT !.consumed = consumed,
                                                !.status = status,
                                                !.result = r.result,
                                                !.forwarded = r.fx.forwarded,
                                                !.configured = r.fx.configured,
                                                !.rendered = r.fx.rendered,
                                                !.redraw = r.fx.redraw,
                                                !.calls = r.fx.calls]
                        /\ pending' = (IF event.kind = "RedrawRequested"
                                        THEN pending \ {window_id}
                                        ELSE pending) \cup r.fx.redraw
                        /\ UNCHANGED <<caps, sessions>>

\* End of main: run_app has returned after exit(), the App and with it the
\* session are dropped.
teardown ==
    /\ exiting
    /\ state # None
    /\ state' = None
    /\ last' = [NoCall EXCEPT !.op = "teardown", !.released = drop_session(state)]
    /\ pending' = {}
    /\ UNCHANGED <<exiting, caps, sessions>>

Next == resumed \/ window_event \/ teardown

Spec == Init /\ [][Next]_vars

(***************************************************************************)
(* The render loop: the windowing layer delivers every redraw it owes      *)
(***************************************************************************)
\* The event loop hands the session a RedrawRequested that is owed to the
\* window of this role.
deliver_redraw(role) ==
    /\ window_event
    /\ state # None
    /\ state[role].window \in pending
    /\ last'.window_id = state[role].window
    /\ last'.event.kind = "RedrawRequested"

\* A session is created with windows of the default size, or creation fails.
create_session ==
    /\ resumed
    /\ last'.sizes \in {<<NoSize, NoSize>>, <<<<800, 600>>, <<800, 600>>>>}

\* Any event other than a resize: redraws (owed or spontaneous), close
\* requests, other events, for any window id.
loop_event ==
    /\ window_event
    /\ last'.event.kind # "Resized"

NextLoop == create_session \/ loop_event \/ teardown

\* ControlFlow::Poll: the loop keeps running, so an owed redraw is delivered.
SpecLoop ==
    Init /\ [][NextLoop]_vars /\ \A role \in Roles : WF_vars(deliver_redraw(role))

(***************************************************************************)
(* Format selection over every supported-format list                       *)
(***************************************************************************)
MaxFormats == 3

\* The texture formats a surface may list.
Formats == {"Bgra8Unorm", "Rgba8Unorm", "Bgra8UnormSrgb", "Rgba8UnormSrgb"}

\* Every non-empty list of distinct formats, up to MaxFormats entries.
FormatLists ==
    { l \in UNION { [1..n -> Formats] : n \in 1..MaxFormats } :
        \A i, j \in 1..Len(l) : l[i] = l[j] => i = j }

\* As Init, with the surfaces of the platform reporting any such list.
InitFormats ==
    /\ state = None
    /\ exiting = FALSE
    /\ caps \in { [role \in Roles |-> [formats |-> l, alpha_modes |-> <<"Opaque">>]] :
                    l \in FormatLists }
    /\ sessions = 0
    /\ pending = {}
    /\ last = NoCall

\* Sessions are created (from_raw selects the formats); no event is handled.
NextFormats == resumed

SpecFormats == InitFormats /\ [][NextFormats]_vars

(***************************************************************************)
(* Renderer::render called on the windows of a session                     *)
(***************************************************************************)
\* A call of Renderer::render with the session's GPU context and one of its
\* window contexts as target; a panic ends the program.
Renderer_render ==
    /\ ~exiting
    /\ state # None
    /\ \E role \in Roles, status \in SurfaceStatus :
       \E r \in {render(state.gpu, state[role], status)} :
          /\ last' = [NoCall EXCEPT !.op = "render",
                                    !.window_id = state[role].window,
                                    !.status = status,
                                    !.result = r.result,
                                    !.calls = r.calls,
                                    !.redraw = r.redraw]
          /\ exiting' = (r.result = "panic")
          /\ pending' = pending \cup r.redraw
          /\ UNCHANGED <<state, caps, sessions>>

NextRender == resumed \/ Renderer_render

SpecRender == Init /\ [][NextRender]_vars

(***************************************************************************)
(* Properties                                                              *)
(***************************************************************************)
Active == state # None

\* The last call was an event handled by an Active session.
Updated == Active /\ last.op = "window_event"

\* The step is the handling of an event by an Active session.
UpdateStep == state # None /\ last'.op = "window_event"

ZeroArea(size) == size[1] = 0 \/ size[2] = 0

\* The role of the session's window with this id, if any.
RolesOf(s, window_id) == { r \in Roles : s[r].window = window_id }

\* The match of update was reached with this call.
Dispatched(call, s) ==
    ~(call.window_id = s.control.window /\ call.consumed)

\* C1: an event for the control window that the GUI reports as consumed makes
\* update return Ok(None) and nothing else happens, whatever the event's kind:
\* the session (both window contexts and their surfaces) is unchanged, no
\* surface is configured, no renderer runs, no redraw is requested and the
\* event loop is not told to exit.
C1_ConsumedSkipsDispatch ==
    [][ (UpdateStep /\ last'.window_id = state.control.window /\ last'.consumed)
        => /\ last'.result = "Ok(None)"
           /\ state' = state
           /\ last'.configured = {}
           /\ last'.rendered = {}
           /\ last'.redraw = {}
           /\ exiting' = FALSE ]_vars

\* C1 witness: a consumed Resized event for the control window, with a size
\* that is not the configured one, was handled.
C1_Witness ==
    /\ Updated
    /\ last.window_id = state.control.window
    /\ last.consumed
    /\ last.event.kind = "Resized"
    /\ ~ZeroArea(last.event.size)
    /\ last.event.size # <<state.control.config.width, state.control.config.height>>

\* C2 as stated: CloseRequested for the view window yields Some(Exit), and
\* CloseRequested for the control window yields Some(Exit) too.
C2_CloseAlwaysExits ==
    (Updated /\ last.event.kind = "CloseRequested"
     /\ last.window_id \in {state.view.window, state.control.window})
    => last.result = "Ok(Some(Exit))"

\* C2 amended: CloseRequested for the view window yields Some(Exit);
\* CloseRequested for the control window yields Some(Exit) when the GUI does
\* not report the event as consumed, and Ok(None) when it does.
C2_CloseExitsUnlessConsumed ==
    (Updated /\ last.event.kind = "CloseRequested"
     /\ last.window_id \in {state.view.window, state.control.window})
    => /\ Dispatched(last, state) => last.result = "Ok(Some(Exit))" /\ exiting
       /\ ~Dispatched(last, state) => last.result = "Ok(None)" /\ ~exiting

\* C2 witness: a CloseRequested for the control window that the GUI did not
\* consume ended with Some(Exit).
C2_Witness ==
    /\ Updated
    /\ last.event.kind = "CloseRequested"
    /\ last.window_id = state.control.window
    /\ ~last.consumed
    /\ last.result = "Ok(Some(Exit))"

\* C3: resize with a zero width or a zero height leaves the window context
\* (its whole stored configuration and its surface) as it was and does not
\* configure the surface.
C3_ZeroResizeNoOp ==
    [][ (UpdateStep /\ last'.event.kind = "Resized" /\ ZeroArea(last'.event.size)
         /\ RolesOf(state, last'.window_id) # {} /\ Dispatched(last', state))
        => /\ state'.view = state.view
           /\ state'.control = state.control
           /\ last'.configured = {} ]_vars

\* C3 witness: resize was called with exactly one zero dimension.
C3_Witness ==
    /\ Updated
    /\ last.event.kind = "Resized"
    /\ last.event.size[1] = 0
    /\ last.event.size[2] > 0
    /\ last.window_id = state.view.window

\* C4: after resize(w, h) with w > 0 and h > 0 the stored configuration and
\* the one applied to the surface have width w and height h.
C4_ResizeSetsSize ==
    (Updated /\ last.event.kind = "Resized" /\ ~ZeroArea(last.event.size)
     /\ Dispatched(last, state))
    => \A r \in RolesOf(state, last.window_id) :
          /\ state[r].config.width = last.event.size[1]
          /\ state[r].config.height = last.event.size[2]
          /\ state[r].surface.config = state[r].config
          /\ last.configured = {r}

\* C4 witness: a non-square, non-zero resize of the view window was handled.
C4_Witness ==
    /\ Updated
    /\ last.event.kind = "Resized"
    /\ last.event.size = <<1024, 768>>
    /\ last.window_id = state.view.window
    /\ last.configured = {"view"}

\* C5: in an Active session the configured width and height of both window
\* contexts are at least 1.
C5_SizeAtLeastOne ==
    Active => \A r \in Roles : state[r].config.width >= 1 /\ state[r].config.height >= 1

\* C5 witness: a session was just created from windows that reported a
\* 0 x 0 and a 0 x 1 inner size.
C5_Witness ==
    /\ Active
    /\ last.op = "resumed"
    /\ last.failure = "None"
    /\ last.sizes = << <<0, 0>>, <<0, 1>> >>

\* <<width, height>> of a window context's stored configuration.
Dims(wc) == <<wc.config.width, wc.config.height>>

\* Routing of Resized: only the window context whose window has the event's
\* id may change.
ResizeRouted ==
    (UpdateStep /\ last'.event.kind = "Resized")
    => /\ last'.window_id # state.view.window => state'.view = state.view
       /\ last'.window_id # state.control.window => state'.control = state.control
       /\ last'.configured \subseteq RolesOf(state, last'.window_id)
       /\ state'.gpu = state.gpu /\ state'.gui = state.gui

\* Scenario, first event: with both windows at 800 x 600, Resize(view, 0, 0)
\* leaves the view at 800 x 600.
ScenarioZeroResize ==
    (UpdateStep /\ last'.event = [kind |-> "Resized", size |-> <<0, 0>>]
     /\ last'.window_id = state.view.window
     /\ Dims(state.view) = <<800, 600>> /\ Dims(state.control) = <<800, 600>>)
    => Dims(state'.view) = <<800, 600>> /\ Dims(state'.control) = <<800, 600>>

\* Scenario, third event: CloseRequested(view) yields Some(Exit).
ScenarioClose ==
    (UpdateStep /\ last'.event.kind = "CloseRequested"
     /\ last'.window_id = state.view.window
     /\ Dims(state.view) = <<800, 600>> /\ Dims(state.control) = <<1024, 768>>)
    => last'.result = "Ok(Some(Exit))" /\ exiting'

\* The second event of the scenario is about to be handled.
ScenarioControlResize ==
    /\ UpdateStep
    /\ last'.event = [kind |-> "Resized", size |-> <<1024, 768>>]
    /\ last'.window_id = state.control.window
    /\ Dims(state.view) = <<800, 600>> /\ Dims(state.control) = <<800, 600>>

\* C6 as stated: Resized is routed only to the window context with the
\* event's window id, and in the scenario Resize(control, 1024, 768) makes the
\* control configuration 1024 x 768 while the view stays at 800 x 600.
C6_RoutingAndScenario ==
    [][ /\ ResizeRouted
        /\ ScenarioZeroResize
        /\ ScenarioControlResize
             => Dims(state'.control) = <<1024, 768>> /\ Dims(state'.view) = <<800, 600>>
        /\ ScenarioClose ]_vars

\* C6 amended: as stated, except that Resize(control, 1024, 768) makes the
\* control configuration 1024 x 768 when the GUI does not report the event as
\* consumed; when it does, the control configuration stays at 800 x 600.
C6_RoutingAndScenarioUnconsumed ==
    [][ /\ ResizeRouted
        /\ ScenarioZeroResize
        /\ (ScenarioControlResize /\ ~last'.consumed)
             => Dims(state'.control) = <<1024, 768>> /\ Dims(state'.view) = <<800, 600>>
        /\ (ScenarioControlResize /\ last'.consumed)
             => Dims(state'.control) = <<800, 600>> /\ Dims(state'.view) = <<800, 600>>
        /\ ScenarioClose ]_vars

\* C6 witness: the end of the scenario: CloseRequested(view) answered with
\* Some(Exit), the view at 800 x 600 and the control window at 1024 x 768.
C6_Witness ==
    /\ Updated
    /\ last.event.kind = "CloseRequested"
    /\ last.window_id = state.view.window
    /\ last.result = "Ok(Some(Exit))"
    /\ Dims(state.view) = <<800, 600>>
    /\ Dims(state.control) = <<1024, 768>>

\* C7: RedrawRequested invokes render_view only for the view window's id and
\* render_control only for the control window's id (each once the match is
\* reached), no other event invokes a renderer, and the redraw is requested
\* for the window of the renderer that ran.
C7_RendererMatchesWindow ==
    Updated =>
       /\ \A r \in last.rendered : state[r].window = last.window_id
       /\ last.rendered =
            IF last.event.kind = "RedrawRequested" /\ Dispatched(last, state)
            THEN RolesOf(state, last.window_id) ELSE {}
       /\ last.redraw = { state[r].window : r \in last.rendered }

\* C7 witness: a RedrawRequested for the control window ran render_control.
C7_Witness ==
    /\ Updated
    /\ last.event.kind = "RedrawRequested"
    /\ last.window_id = state.control.window
    /\ last.rendered = {"control"}

\* The renderer for this call's window could not get a frame: the event is a
\* RedrawRequested that reached the match while get_current_texture fails.
RenderFails(call, s) ==
    /\ call.event.kind = "RedrawRequested"
    /\ RolesOf(s, call.window_id) # {}
    /\ Dispatched(call, s)
    /\ ~get_current_texture(call.status).ok

\* C8: when the renderer of a RedrawRequested fails with a RenderError, update
\* returns Err with the variant of the window: RenderView for the view
\* window, RenderControl for the control window.
C8_RenderErrorIsReported ==
    (Updated /\ RenderFails(last, state))
    => /\ last.window_id = state.view.window
            => last.result = "Err(RenderView(GetFrame))"
       /\ last.window_id = state.control.window
            => last.result = "Err(RenderControl(GetFrame))"

\* C9: a render error is reported by update and leaves the session as it was:
\* still Active, both window contexts unchanged, the event loop not told to
\* exit, so that later events are handled as they would have been.
C9_RenderErrorKeepsSession ==
    [][ (UpdateStep /\ RenderFails(last', state))
        => /\ last'.result \in {"Err(RenderView(GetFrame))",
                                "Err(RenderControl(GetFrame))"}
           /\ state' = state
           /\ exiting' = FALSE ]_vars

\* C10: a resumed signal received while a session is Active changes nothing:
\* the stored session (window ids, both configurations, GPU context, GUI
\* context) is the same afterwards and no new session was built.
C10_ResumedWhenActiveIsNoOp ==
    [][ (state # None /\ last'.op = "resumed")
        => state' = state /\ sessions' = sessions ]_vars

\* The construction steps of Session::try_new, in execution order.
ConstructionOrder ==
    <<"instance", "view_window", "view_surface", "control_window",
      "control_surface", "adapter", "device", "gpu", "view_context",
      "control_context", "gui">>

\* The construction step that an injected failure makes fail.
FailedStep(failure) ==
    CASE failure = "ViewWindow" -> "view_window"
      [] failure = "ViewSurface" -> "view_surface"
      [] failure = "ControlWindow" -> "control_window"
      [] failure = "ControlSurface" -> "control_surface"
      [] failure = "RequestAdapter" -> "adapter"
      [] failure = "RequestDevice" -> "device"

SessionErrors == {"InitViewWindow", "InitControlWindow", "InitGpu"}

\* The resumed call just made failed at one of its construction steps.
ConstructionFailed(call) == call.op = "resumed" /\ call.failure # "None"

\* C11: when a construction step of session creation fails, initialization
\* stops at that step (the steps that ran are exactly those before it), the
\* call surfaces a SessionError, and the owner's state is what it was: no
\* session is stored, so an Uninitialized owner is still Uninitialized.
C11_FailureAborts ==
    [][ConstructionFailed(last') =>
          /\ state' = state
          /\ sessions' = sessions
          /\ (state = None => state' = None)
          /\ last'.result = "Err"
          /\ last'.err.variant \in SessionErrors
          /\ \E k \in 1..Len(ConstructionOrder) :
                /\ ConstructionOrder[k] = FailedStep(last'.failure)
                /\ last'.steps = SubSeq(ConstructionOrder, 1, k - 1)]_vars

\* A device request failed after both windows and the adapter were obtained,
\* and the owner is Uninitialized.
C11_Witness ==
    /\ ConstructionFailed(last)
    /\ last.failure = "RequestDevice"
    /\ Len(last.steps) = 6
    /\ state = None

\* C12: a creation error carries the variant of the component that failed:
\* view window or surface -> InitViewWindow, control window or surface ->
\* InitControlWindow, adapter or device -> InitGpu, with the component's own
\* error inside, and the line logged names the same component.
C12_ErrorAttribution ==
    ConstructionFailed(last) =>
        /\ (last.failure \in {"ViewWindow", "ViewSurface"}
              <=> last.err.variant = "InitViewWindow")
        /\ (last.failure \in {"ControlWindow", "ControlSurface"}
              <=> last.err.variant = "InitControlWindow")
        /\ (last.failure \in {"RequestAdapter", "RequestDevice"}
              <=> last.err.variant = "InitGpu")
        /\ (last.failure \in {"ViewWindow", "ControlWindow"}
              <=> last.err.source = "CreateWindow")
        /\ (last.failure \in {"ViewSurface", "ControlSurface"}
              <=> last.err.source = "CreateSurface")
        /\ (last.failure \in {"RequestAdapter", "RequestDevice"}
              => last.err.source = last.failure)
        /\ last.error = log_message(last.err)

\* The control window's surface could not be created and the error says so.
C12_Witness ==
    /\ ConstructionFailed(last)
    /\ last.failure = "ControlSurface"
    /\ last.err = [variant |-> "InitControlWindow", source |-> "CreateSurface"]
    /\ last.error = "Failed to init control window"

\* C13: an event for the control window is offered to the GUI, once, before
\* any call the session makes to handle it; an event for the view window or
\* for an unknown window id is not offered to the GUI at all.
C13_GuiFirstControlOnly ==
    Updated =>
        IF last.window_id = state.control.window
        THEN /\ last.forwarded
             /\ Len(last.calls) >= 1
             /\ last.calls[1] = "gui.on_window_event"
             /\ \A i \in 2..Len(last.calls) : last.calls[i] # "gui.on_window_event"
        ELSE /\ ~last.forwarded
             /\ \A i \in 1..Len(last.calls) : last.calls[i] # "gui.on_window_event"

\* A resize of the control window, not consumed: GUI first, then the resize.
C13_Witness ==
    /\ Updated
    /\ last.window_id = state.control.window
    /\ last.event.kind = "Resized"
    /\ ~last.consumed
    /\ last.calls = <<"gui.on_window_event", "control.resize">>

\* The call is a Resized event that reached the match, for this role's window.
ResizeOf(call, s, role) ==
    /\ call.op = "window_event"
    /\ call.event.kind = "Resized"
    /\ call.window_id = s[role].window
    /\ Dispatched(call, s)

\* C14: resize is idempotent. After a resize of a window context, a second
\* resize with the same size would leave the context (stored configuration and
\* the configuration applied to the surface) as the first left it; and when
\* the same Resized event is handled twice in a row, the second handling
\* changes nothing.
C14_ResizeIdempotent ==
    [][\A role \in Roles :
          (state # None /\ ResizeOf(last', state, role)) =>
             /\ state'[role] = resize(state[role], last'.event.size).wc
             /\ resize(state'[role], last'.event.size).wc = state'[role]
             /\ (ResizeOf(last, state, role) /\ last.event = last'.event
                    => state' = state)]_vars

\* A resize of the view window to 1024x768 was handled; the stored and the
\* applied configuration both carry that size.
C14_Witness ==
    /\ Updated
    /\ ResizeOf(last, state, "view")
    /\ last.event.size = <<1024, 768>>
    /\ Dims(state.view) = <<1024, 768>>
    /\ state.view.surface.config = state.view.config

\* C15: for every non-empty supported-format list, the format of a created
\* window context is an entry of the list; when the list has an sRGB entry it
\* is the sRGB entry that no sRGB entry precedes; when it has none it is the
\* first entry. The list alone determines it.
C15_FormatSelection ==
    Active =>
      \A role \in Roles :
        LET formats == caps[role].formats
            format == state[role].config.format
            N == 1..Len(formats)
        IN  /\ \E i \in N : formats[i] = format
            /\ (\E i \in N : is_srgb(formats[i]))
                  => \E i \in N : /\ formats[i] = format
                                  /\ is_srgb(format)
                                  /\ \A j \in 1..(i - 1) : ~is_srgb(formats[j])
            /\ (\A i \in N : ~is_srgb(formats[i])) => format = formats[1]
            /\ state[role].surface.config.format = format

\* A list with two sRGB entries after a non-sRGB one: the first sRGB entry
\* was selected.
C15_Witness ==
    /\ Active
    /\ caps["view"].formats = <<"Bgra8Unorm", "Rgba8UnormSrgb", "Bgra8UnormSrgb">>
    /\ state.view.config.format = "Rgba8UnormSrgb"

\* C16: an event that is neither CloseRequested nor Resized nor
\* RedrawRequested makes update return Ok(None) and leaves both window
\* contexts (stored and applied configuration) as they were, with no surface
\* configured and no redraw requested; and update returns Some(Exit), and the
\* loop is told to exit, only for a CloseRequested event.
C16_OtherEventsIgnored ==
    [][UpdateStep =>
          /\ (last'.event.kind \notin {"CloseRequested", "Resized", "RedrawRequested"}
                => /\ last'.result = "Ok(None)"
                   /\ state'.view = state.view
                   /\ state'.control = state.control
                   /\ last'.configured = {}
                   /\ last'.redraw = {}
                   /\ ~exiting')
          /\ (last'.result = "Ok(Some(Exit))" \/ exiting'
                => last'.event.kind = "CloseRequested")]_vars

\* Another kind of event for the view window was handled: Ok(None).
C16_Witness ==
    /\ Updated
    /\ last.event.kind = "Other"
    /\ last.window_id = state.view.window
    /\ last.result = "Ok(None)"
    /\ ~exiting

\* C17: whenever a session is released, both window contexts are released
\* before the GPU context.
C17_WindowContextsReleasedFirst ==
    \A i, j \in 1..Len(last.released) :
        (last.released[i] = "gpu" /\ last.released[j] \in {"view", "control"})
            => j < i

\* The parts of a session among the construction steps.
IsPart(step) ==
    step \in {"gpu", "view_context", "control_context", "gui",
              "view_renderer", "control_renderer"}

\* Step a ran, and before step b.
RanBefore(steps, a, b) ==
    \E i, j \in 1..Len(steps) : i < j /\ steps[i] = a /\ steps[j] = b

\* The contexts of a created session, in the order they were constructed.
ContextsInOrder ==
    (last.op = "resumed" /\ last.failure = "None") =>
        /\ SelectSeq(last.steps, IsPart)
              = <<"gpu", "view_context", "control_context", "gui">>
        /\ RanBefore(last.steps, "view_surface", "adapter")
        /\ RanBefore(last.steps, "view_surface", "device")

\* C18: a successful session creation constructs GpuContext, the view
\* WindowContext, the control WindowContext, the GuiContext and the two
\* renderers, in that order, and the view surface exists before the adapter
\* and the device are requested.
C18_ConstructionOrder ==
    (last.op = "resumed" /\ last.failure = "None") =>
        /\ SelectSeq(last.steps, IsPart)
              = <<"gpu", "view_context", "control_context", "gui",
                  "view_renderer", "control_renderer">>
        /\ RanBefore(last.steps, "view_surface", "adapter")
        /\ RanBefore(last.steps, "view_surface", "device")

\* The call sequence has a before b, or lacks b.
NotBefore(calls, b, a) ==
    \A j \in 1..Len(calls) :
        calls[j] = b => \E i \in 1..(j - 1) : calls[i] = a

\* C19: a render call whose frame acquisition succeeds acquires the frame,
\* creates the view, records, submits, presents and requests the redraw of the
\* target window, in that order, and returns Ok; one whose acquisition fails
\* returns a RenderError without submitting, presenting or requesting a
\* redraw; a frame is never presented before the submission.
C19_RenderProtocol ==
    last.op = "render" =>
        /\ NotBefore(last.calls, "present", "submit")
        /\ IF last.status = "Good"
           THEN /\ last.result = "Ok(())"
                /\ SelectSeq(last.calls,
                             LAMBDA c : c \in {"get_current_texture", "create_view",
                                               "submit", "present", "request_redraw"})
                      = <<"get_current_texture", "create_view", "submit",
                          "present", "request_redraw">>
                /\ last.redraw = {last.window_id}
           ELSE /\ last.result = "Err(GetFrame)"
                /\ \A i \in 1..Len(last.calls) :
                      last.calls[i] \notin {"submit", "present", "request_redraw"}
                /\ last.redraw = {}

\* The last call rendered the window of this role.
Redrawn(role) == last.op = "window_event" /\ last.rendered = {role}

\* The GUI consumed a RedrawRequested of the control window.
RedrawConsumed ==
    /\ Updated
    /\ last.event.kind = "RedrawRequested"
    /\ last.window_id = state.control.window
    /\ last.consumed

\* A RedrawRequested that reaches the match for a window of the session
\* requests the next redraw of that window and of no other; for any other id
\* it requests none.
RedrawRequestsSame ==
    (/\ UpdateStep
     /\ last'.event.kind = "RedrawRequested"
     /\ Dispatched(last', state))
       => /\ last'.redraw = {last'.window_id} \cap {state.view.window, state.control.window}
          /\ last'.redraw \subseteq pending'

\* C20 as stated: every dispatched RedrawRequested requests the next redraw of
\* the same window only, and with every owed redraw delivered each window is
\* redrawn again and again for as long as the session is Active and the loop
\* has not been told to exit.
C20_RenderLoopAlive ==
    /\ [][RedrawRequestsSame]_vars
    /\ \A role \in Roles : []<>(~Active \/ exiting \/ Redrawn(role))

\* C20, amended: the same for the view window; for the control window unless
\* the GUI consumes one of its RedrawRequested events, which ends its loop.
C20_RenderLoopAliveUnconsumed ==
    /\ [][RedrawRequestsSame]_vars
    /\ []<>(~Active \/ exiting \/ Redrawn("view"))
    /\ ([]<>(~Active \/ exiting \/ Redrawn("control")) \/ <>RedrawConsumed)

\* A redraw of the control window was dispatched and both windows are owed
\* their next redraw.
C20_Witness ==
    /\ Updated
    /\ last.event.kind = "RedrawRequested"
    /\ last.window_id = state.control.window
    /\ ~last.consumed
    /\ last.redraw = {state.control.window}
    /\ pending = {state.view.window, state.control.window}

\* C21: whenever a session exists, the configuration last applied to each
\* surface is the one stored in its window context: it is applied at creation,
\* and an operation that changes a stored configuration applies it to that
\* surface before it returns.
C21_SurfaceMatchesConfig ==
    [][state' # None =>
          \A role \in Roles :
             /\ state'[role].surface.config = state'[role].config
             /\ (/\ UpdateStep
                 /\ state'[role].config # state[role].config)
                   => role \in last'.configured]_vars

\* The control window was resized to 1024x768: the surface was configured
\* again and carries the stored configuration.
C21_Witness ==
    /\ Updated
    /\ ResizeOf(last, state, "control")
    /\ last.event.size = <<1024, 768>>
    /\ last.configured = {"control"}
    /\ Dims(state.control) = <<1024, 768>>
    /\ state.control.surface.config = state.control.config

\* C22: the GUI's output format is the control surface's configured format
\* when the session is created and after every event the session handles; no
\* event changes the format of a window context or of the GUI.
C22_GuiFormatIsControlFormat ==
    [][state' # None =>
          /\ state'.gui.output_format = state'.control.config.format
          /\ state'.gui.output_format = state'.control.surface.config.format
          /\ state'.gui.window = state'.control.window
          /\ UpdateStep =>
                /\ state'.gui = state.gui
                /\ \A role \in Roles :
                      state'[role].config.format = state[role].config.format]_vars

\* The two surfaces were given different formats, the control window has been
\* resized, and the GUI still has the control surface's format.
C22_Witness ==
    /\ Updated
    /\ ResizeOf(last, state, "control")
    /\ last.configured = {"control"}
    /\ state.view.config.format = "Bgra8UnormSrgb"
    /\ state.control.config.format = "Rgba8Unorm"
    /\ state.gui.output_format = "Rgba8Unorm"

\* C23: a window event that arrives while there is no session is ignored: the
\* shell still has no session, the event is not offered to the GUI, no surface
\* is configured, no render helper runs, no redraw is requested or owed, and
\* the event loop is not told to exit.
C23_IgnoredWithoutSession ==
    [][(state = None /\ last'.op = "window_event") =>
          /\ state' = None
          /\ ~last'.forwarded
          /\ last'.calls = <<>>
          /\ last'.configured = {}
          /\ last'.rendered = {}
          /\ last'.redraw = {}
          /\ pending' = pending
          /\ sessions' = sessions
          /\ ~exiting']_vars

\* A CloseRequested arrived before any session was created and the loop runs on.
C23_Witness ==
    /\ state = None
    /\ sessions = 0
    /\ last.op = "window_event"
    /\ last.event.kind = "CloseRequested"
    /\ ~exiting

====
